---- MODULE Spec2Model ----
(***************************************************************************)
(* Model of main.ipynb, the Pandas-vs-Polars benchmark notebook.           *)
(*                                                                         *)
(* The notebook is six code cells executed top to bottom by "Run All" on   *)
(* a fresh kernel: cell 3 generates the dataset and writes dataset.csv,    *)
(* cells 4.1 to 4.4 time Read, Sort, Group and Manipulate for Pandas and   *)
(* then Polars, cell 5 collects the eight durations into the chart lists.  *)
(* An uncaught exception ends the cell it is raised in and stops the run.  *)
(*                                                                         *)
(* The operation names of the written specification correspond to the      *)
(* notebook's names: load = Read, sort = Sort, group_sum = Group,          *)
(* derive = Manipulate.                                                    *)
(*                                                                         *)
(* Abstractions: the dataset has at most MaxRows rows (the notebook writes *)
(* 10,000,000); the two Mersenne-Twister generators are deterministic      *)
(* automata over 512 states; floating-point values are exact rationals;    *)
(* the wall clock counts whole ticks up to MaxClock, is followed           *)
(* only while a timer is running, and is set back at most MaxSetBacks      *)
(* times.                                                                  *)
(*                                                                         *)
(* Four specifications share the statements' actions: Spec is one Run All  *)
(* on a fresh kernel; SpecSession is an interactive session of up to       *)
(* MaxExecutions single-cell executions in any order; SpecData runs the    *)
(* timing and results cells over every dataset of up to MaxDataRows rows;  *)
(* SpecDates runs the date comprehension from every generator state.       *)
(***************************************************************************)
EXTENDS Integers, Sequences, FiniteSets, TLC

VARIABLES
    pc,            \* index into Program of the next statement to execute
    last,          \* index of the last statement the front end asked to execute
    executions,    \* how many execution requests the front end has made
    run,           \* "idle", "running", "completed" or "aborted"
    traceback,     \* None, or <<statement>> that raised the uncaught exception
    clock,         \* the wall clock that time.time() reads
    setBacks,      \* how many times the wall clock has been set back
    np_rng,        \* state of numpy's global generator (None before seeding)
    py_rng,        \* state of random's global generator (None before seeding)
    num_rows,      \* the notebook's global of that name
    dates,         \* cell 3's list of that name
    df,            \* cell 3's DataFrame
    file,          \* content of dataset.csv: None when absent, else <<lines>>
    start_time,    \* the one timer global every timing block reuses
    pd_df, pl_df,  \* the loaded tables
    pd_df_sorted, pl_df_sorted,
    pd_grouped, pl_grouped,
    durations,     \* the eight *_time globals, by name
    stdout,        \* what the print calls have written
    operations, pandas_times, polars_times,  \* cell 5's lists
    log,           \* history: the (engine, operation) pairs invoked, in order
    reads,         \* history: the engines that opened dataset.csv, in order
    raised,        \* history: the statements at which an exception was raised
    trace,         \* history: every statement executed, in order
    generated      \* history: num_rows and df of each execution of cell 3

vars == << pc, last, executions, run, traceback, clock, setBacks, np_rng,
           py_rng, num_rows, dates, df, file, start_time, pd_df, pl_df,
           pd_df_sorted, pl_df_sorted, pd_grouped, pl_grouped, durations,
           stdout, operations, pandas_times, polars_times, log, reads, raised,
           trace, generated >>

---------------------------------------------------------------------------
(* Bounds of the model *)

MaxRows == 2
MaxClock == 1
MaxSetBacks == 1
MaxExecutions == 3
MaxDataRows == 3

---------------------------------------------------------------------------
(* Values *)

\* A Python name is either unbound (None) or bound to a value (Some(v)).
None == << >>
Some(v) == << v >>
IsBound(x) == x # None
Val(x) == x[1]

Seed == 42
Categories == << "A", "B", "C", "D", "E" >>
Epoch == [year |-> 2020, month |-> 1, day |-> 1]
Multiplier == [num |-> 11, den |-> 10]
Header == << "ID", "Category", "Value", "Date" >>

EngineNames == << "Pandas", "Polars" >>
Engines == { EngineNames[i] : i \in DOMAIN EngineNames }
OperationOrder == << "Read", "Sort", "Group", "Manipulate" >>
Operations == { OperationOrder[i] : i \in DOMAIN OperationOrder }
Pairs == Engines \X Operations

Range(s) == { s[i] : i \in DOMAIN s }
Count(s, x) == Cardinality({ i \in DOMAIN s : s[i] = x })
Perms(n) == { p \in [1..n -> 1..n] : \A i, j \in 1..n : p[i] = p[j] => i = j }
IndexOf(s, x) == CHOOSE i \in DOMAIN s : s[i] = x

---------------------------------------------------------------------------
(* The notebook as a sequence of statements *)

Stmt(k, e, o) == [kind |-> k, engine |-> e, op |-> o]

\* One timing block: start_time = time.time(); <operation>;
\* <x>_time = time.time() - start_time; print(...)
Timed(e, o) == << Stmt("start", e, o), Stmt("exec", e, o), Stmt("stop", e, o) >>

\* Mutant of Cell: the Polars block takes no start reading of its own.
CellOneStart(o) ==
    Timed("Pandas", o) \o << Stmt("exec", "Polars", o), Stmt("stop", "Polars", o) >>

\* Mutant of Cell: the Polars block is a second copy of the Pandas block.
CellPandasTwice(o) == Timed("Pandas", o) \o Timed("Pandas", o)

\* A timing cell: the Pandas block, then the Polars block.
Cell(o) == Timed("Pandas", o) \o Timed("Polars", o)

\* Mutant of Program: the Manipulate cell placed before the Sort cell.
ProgramManipulateEarly ==
    << Stmt("generate", "-", "-"), Stmt("to_csv", "-", "-") >>
        \o Cell("Read") \o Cell("Manipulate") \o Cell("Sort") \o Cell("Group")
        \o << Stmt("results", "-", "-") >>

\* Mutant of Program: the Group cell placed before the Sort and Read cells.
ProgramGroupFirst ==
    << Stmt("generate", "-", "-"), Stmt("to_csv", "-", "-") >>
        \o Cell("Group") \o Cell("Read") \o Cell("Sort") \o Cell("Manipulate")
        \o << Stmt("results", "-", "-") >>

\* The code cells in notebook order.
Program ==
    << Stmt("generate", "-", "-"), Stmt("to_csv", "-", "-") >>
        \o Cell("Read") \o Cell("Sort") \o Cell("Group") \o Cell("Manipulate")
        \o << Stmt("results", "-", "-") >>

Current == Program[pc]
At(k) == run = "running" /\ pc \in DOMAIN Program /\ Current.kind = k
AtExec(e, o) == At("exec") /\ Current.engine = e /\ Current.op = o

\* The global each timing block assigns its duration to.
TimeVar(e, o) ==
    CASE e = "Pandas" /\ o = "Read"       -> "pandas_read_time"
      [] e = "Pandas" /\ o = "Sort"       -> "pandas_sort_time"
      [] e = "Pandas" /\ o = "Group"      -> "pandas_group_time"
      [] e = "Pandas" /\ o = "Manipulate" -> "pandas_manipulation_time"
      [] e = "Polars" /\ o = "Read"       -> "polars_read_time"
      [] e = "Polars" /\ o = "Sort"       -> "polars_sort_time"
      [] e = "Polars" /\ o = "Group"      -> "polars_group_time"
      [] e = "Polars" /\ o = "Manipulate" -> "polars_manipulation_time"

TimeVars == { TimeVar(p[1], p[2]) : p \in Pairs }

\* The text each timing block prints before the duration.
PrintLabel(e, o) ==
    << e, CASE o = "Read" -> "Read Time"
            [] o = "Sort" -> "Sort Time"
            [] o = "Group" -> "Group Time"
            [] o = "Manipulate" -> "Manipulation Time" >>

---------------------------------------------------------------------------
(* The random generators *)

\* np.random.seed(s) / random.seed(s): the state is a function of s alone.
SeedState(s) == s % 512

RngStates == 0..511

\* One draw advances the state; the value drawn is a function of the new state.
RngNext(s) == (5 * s + 3) % 512

\* The states after 1, 2, ..., n draws from state s.
RECURSIVE Draws(_, _)
Draws(s, n) == IF n = 0 THEN << >> ELSE << RngNext(s) >> \o Draws(RngNext(s), n - 1)

AfterDraws(s, n) == IF n = 0 THEN s ELSE Draws(s, n)[n]

\* Mutant of Randint: the range holds one value more, b + 1 included.
RandintOnePastHigh(s, a, b) == a + (s * (b - a + 2)) \div 512

\* random.randint(a, b): an integer in a..b, both ends included.
Randint(s, a, b) == a + (s * (b - a + 1)) \div 512

\* np.random.choice(labels): one of the labels.
Choice(s, labels) == labels[1 + (s * Len(labels)) \div 512]

\* np.random.rand() * 1000: a value in [0, 1000).
RandTimes1000(s) == (s * 1000) \div 512

---------------------------------------------------------------------------
(* Calendar dates: datetime(2020, 1, 1) + timedelta(days = k) *)

IsLeap(y) == (y % 4 = 0 /\ y % 100 # 0) \/ y % 400 = 0

DaysInMonth(y, m) ==
    IF m = 2 THEN (IF IsLeap(y) THEN 29 ELSE 28)
    ELSE IF m \in {4, 6, 9, 11} THEN 30 ELSE 31

FirstOfNextMonth(d) ==
    IF d.month < 12
    THEN [year |-> d.year, month |-> d.month + 1, day |-> 1]
    ELSE [year |-> d.year + 1, month |-> 1, day |-> 1]

\* The date k days after d: within the month when it fits, else carried on
\* from the first day of the next month.
RECURSIVE AddDays(_, _)
AddDays(d, k) ==
    IF d.day + k <= DaysInMonth(d.year, d.month)
    THEN [d EXCEPT !.day = d.day + k]
    ELSE AddDays(FirstOfNextMonth(d),
                 k - (DaysInMonth(d.year, d.month) - d.day + 1))

---------------------------------------------------------------------------
(* Cell 3: the dataset generator *)

\* dates = [datetime(2020, 1, 1) + timedelta(days=random.randint(0, 365)) ...]
Dates(s, n) == [i \in 1..n |-> AddDays(Epoch, Randint(Draws(s, n)[i], 0, 365))]

\* Mutant of Ids: range(num_rows), ids counted from 0.
IdsFromZero(n) == [i \in 1..n |-> i - 1]

\* "ID": range(1, num_rows + 1)
Ids(n) == [i \in 1..n |-> i]

\* pd.DataFrame(data): one row per position of the columns; every column has
\* the length of "ID".  np.random.choice draws n states, np.random.rand the
\* next n.
DataFrame(ids, np, py, n) ==
    [engine  |-> "Pandas",
     columns |-> Header,
     index   |-> [i \in 1..Len(ids) |-> i - 1],
     rows    |-> [i \in 1..Len(ids) |->
                    [ID       |-> ids[i],
                     Category |-> Choice(Draws(np, 2 * n)[i], Categories),
                     Value    |-> RandTimes1000(Draws(np, 2 * n)[n + i]),
                     Date     |-> Dates(py, n)[i]]]]

\* A number written as a decimal literal, and a datetime written as an ISO
\* calendar date; the loaders read numbers back and keep the date as text.
Literal(x) == << "literal", x >>
Token(c) == << "token", c >>
IsoDate(d) == << "text", d.year, d.month, d.day >>

CsvLine(r) ==
    << Literal(r.ID), Token(r.Category), Literal(r.Value), IsoDate(r.Date) >>

\* df.to_csv("dataset.csv", index=False): the header line, then one line per
\* row, without the index column.
ToCsvLines(t) == << t.columns >> \o [i \in 1..Len(t.rows) |-> CsvLine(t.rows[i])]

Prefixes(s) == { SubSeq(s, 1, k) : k \in 0..Len(s) }

---------------------------------------------------------------------------
(* The engines' operations *)

\* Type inference of the loaders: numbers become numbers, a label becomes a
\* string, a date stays the text it was written as.
ParseField(f) == IF f[1] \in {"literal", "token"} THEN f[2] ELSE f

\* The rows a loader parses from the lines after the header.
ParseRows(lines) ==
    [i \in 1..(Len(lines) - 1) |->
        [c \in Range(lines[1]) |-> ParseField(lines[i + 1][IndexOf(lines[1], c)])]]

\* pd.read_csv("dataset.csv"): a pandas DataFrame with a fresh RangeIndex.
PdReadCsv(lines) ==
    [engine  |-> "Pandas",
     columns |-> lines[1],
     index   |-> [i \in 1..(Len(lines) - 1) |-> i - 1],
     rows    |-> ParseRows(lines)]

\* pl.read_csv("dataset.csv"): a polars DataFrame (no index).
PlReadCsv(lines) ==
    [engine  |-> "Polars",
     columns |-> lines[1],
     rows    |-> ParseRows(lines)]

Permute(s, p) == [i \in 1..Len(s) |-> s[p[i]]]

\* The orders that arrange the rows ascending by Value.  Neither call asks
\* for a stable sort (pandas: kind="quicksort"; polars: maintain_order=False),
\* so rows of equal Value may come out in any relative order.
SortedOrders(rows) ==
    { p \in Perms(Len(rows)) :
        \A i, j \in 1..Len(rows) : i < j => rows[p[i]].Value <= rows[p[j]].Value }

\* pd_df.sort_values(by="Value"): a new DataFrame; rows keep their index label.
PdSortValues(t, p) ==
    [t EXCEPT !.rows = Permute(t.rows, p), !.index = Permute(t.index, p)]

\* pl_df.sort("Value"): a new DataFrame.
PlSort(t, p) == [t EXCEPT !.rows = Permute(t.rows, p)]

RECURSIVE SumWhere(_, _)
SumWhere(rows, c) ==
    IF rows = << >> THEN 0
    ELSE (IF Head(rows).Category = c THEN Head(rows).Value ELSE 0)
            + SumWhere(Tail(rows), c)

PresentCategories(rows) == { rows[i].Category : i \in DOMAIN rows }

\* The categories present, in ascending (alphabetical) order.
RECURSIVE SortedKeys(_, _)
SortedKeys(labels, present) ==
    IF labels = << >> THEN << >>
    ELSE (IF Head(labels) \in present THEN << Head(labels) >> ELSE << >>)
            \o SortedKeys(Tail(labels), present)

\* pd_df.groupby("Category")["Value"].sum(): a Series named Value, indexed by
\* the group keys in ascending order (groupby sorts its keys).
PdGroupbySum(t) ==
    LET keys == SortedKeys(Categories, PresentCategories(t.rows))
    IN  [engine |-> "Pandas",
         name   |-> "Value",
         index  |-> keys,
         values |-> [i \in 1..Len(keys) |-> SumWhere(t.rows, keys[i])]]

\* Mutant of PlGroupByAgg: each group is aggregated to the Value of its first
\* row, not to the sum.
PlGroupByAggFirst(t, p) ==
    LET keys == Permute(SortedKeys(Categories, PresentCategories(t.rows)), p)
        first(c) == t.rows[CHOOSE i \in DOMAIN t.rows :
                        /\ t.rows[i].Category = c
                        /\ \A j \in 1..(i - 1) : t.rows[j].Category # c]
    IN  [engine  |-> "Polars",
         columns |-> << "Category", "Value" >>,
         rows    |-> [i \in 1..Len(keys) |->
                        [Category |-> keys[i], Value |-> first(keys[i]).Value]]]

\* pl_df.group_by("Category").agg(pl.col("Value").sum()): a DataFrame with one
\* row per group; group_by does not fix the order of the groups (order p).
PlGroupByAgg(t, p) ==
    LET keys == Permute(SortedKeys(Categories, PresentCategories(t.rows)), p)
    IN  [engine  |-> "Polars",
         columns |-> << "Category", "Value" >>,
         rows    |-> [i \in 1..Len(keys) |->
                        [Category |-> keys[i], Value |-> SumWhere(t.rows, keys[i])]]]

\* Mutant of TimesMultiplier: Value + 1.1.
PlusMultiplier(v) ==
    [num |-> v * Multiplier.den + Multiplier.num, den |-> Multiplier.den]

\* Value * 1.1 as an exact fraction.
TimesMultiplier(v) == [num |-> v * Multiplier.num, den |-> Multiplier.den]

WithNewValue(r) ==
    [c \in DOMAIN r \cup {"New_Value"} |->
        IF c = "New_Value" THEN TimesMultiplier(r.Value) ELSE r[c]]

AddColumn(cols, c) == IF c \in Range(cols) THEN cols ELSE Append(cols, c)

\* pd_df["New_Value"] = pd_df["Value"] * 1.1: the column is added to pd_df
\* itself.  pl_df.with_columns(...alias("New_Value")): a new DataFrame, which
\* the cell binds to pl_df again.
WithColumn(t) ==
    [t EXCEPT !.columns = AddColumn(t.columns, "New_Value"),
              !.rows = [i \in 1..Len(t.rows) |-> WithNewValue(t.rows[i])]]

---------------------------------------------------------------------------
(* The run *)

FreshKernel ==
    /\ np_rng = None
    /\ py_rng = None
    /\ num_rows = None
    /\ dates = None
    /\ df = None

NoTables ==
    /\ pd_df = None
    /\ pl_df = None
    /\ pd_df_sorted = None
    /\ pl_df_sorted = None
    /\ pd_grouped = None
    /\ pl_grouped = None

NoTimings ==
    /\ clock = 0
    /\ setBacks = 0
    /\ start_time = None
    /\ durations = [v \in TimeVars |-> None]
    /\ stdout = << >>
    /\ operations = None
    /\ pandas_times = None
    /\ polars_times = None

NoHistory ==
    /\ traceback = None
    /\ log = << >>
    /\ reads = << >>
    /\ raised = {}
    /\ trace = << >>
    /\ generated = << >>

\* Run All on a fresh kernel: every cell is to be executed, first to last.
Init ==
    /\ pc = 1
    /\ last = Len(Program)
    /\ executions = 0
    /\ run = "running"
    /\ FreshKernel
    /\ file = None
    /\ NoTables
    /\ NoTimings
    /\ NoHistory

\* The statement finished: control moves to the next one, and the run is
\* complete after the last one asked for.
Advance ==
    /\ pc' = pc + 1
    /\ run' = IF pc = last THEN "completed" ELSE "running"
    /\ trace' = Append(trace, Current)
    /\ UNCHANGED << traceback, raised, last, executions >>

\* Mutant of Raise: the exception is swallowed and the run goes on.
RaiseSwallowed ==
    /\ pc' = pc + 1
    /\ run' = IF pc = last THEN "completed" ELSE "running"
    /\ traceback' = Some(Current)
    /\ raised' = raised \cup {Current}
    /\ trace' = Append(trace, Current)
    /\ UNCHANGED << last, executions >>

\* An uncaught exception: the rest of the cell and every later cell is
\* skipped, and the traceback points at the statement that raised.
Raise ==
    /\ run' = "aborted"
    /\ traceback' = Some(Current)
    /\ raised' = raised \cup {Current}
    /\ trace' = Append(trace, Current)
    /\ UNCHANGED << pc, last, executions >>

kernel == << np_rng, py_rng, num_rows, dates, df >>
tables == << pd_df, pl_df, pd_df_sorted, pl_df_sorted, pd_grouped, pl_grouped >>
timing == << start_time, durations, stdout >>
chart == << operations, pandas_times, polars_times >>
wall == << clock, setBacks >>

\* Mutant of Generate: the generators are seeded only when they have never
\* been seeded, and otherwise go on from the state they are in.
GenerateSeedsOnce ==
    /\ At("generate")
    /\ \E n \in 0..MaxRows :
        LET py == IF IsBound(py_rng) THEN Val(py_rng) ELSE SeedState(Seed)
            np == IF IsBound(np_rng) THEN Val(np_rng) ELSE SeedState(Seed)
        IN  /\ num_rows' = Some(n)
            /\ py_rng' = Some(AfterDraws(py, n))
            /\ np_rng' = Some(AfterDraws(np, 2 * n))
            /\ dates' = Some(Dates(py, n))
            /\ df' = Some(DataFrame(Ids(n), np, py, n))
            /\ generated' = Append(generated, [num_rows |-> n, df |-> Val(df')])
    /\ Advance
    /\ UNCHANGED << file, tables, timing, chart, wall, log, reads >>

\* Cell 3 up to df = pd.DataFrame(data): both generators are seeded, then
\* num_rows dates, categories and values are drawn.
Generate ==
    /\ At("generate")
    /\ \E n \in 0..MaxRows :
        /\ num_rows' = Some(n)
        /\ py_rng' = Some(AfterDraws(SeedState(Seed), n))
        /\ np_rng' = Some(AfterDraws(SeedState(Seed), 2 * n))
        /\ dates' = Some(Dates(SeedState(Seed), n))
        /\ df' = Some(DataFrame(Ids(n), SeedState(Seed), SeedState(Seed), n))
        /\ generated' = Append(generated, [num_rows |-> n, df |-> Val(df')])
    /\ Advance
    /\ UNCHANGED << file, tables, timing, chart, wall, log, reads >>

\* df.to_csv("dataset.csv", index=False)
ToCsv ==
    /\ At("to_csv")
    /\ IsBound(df)
    /\ file' = Some(ToCsvLines(Val(df)))
    /\ Advance
    /\ UNCHANGED << kernel, tables, timing, chart, wall, log, reads, generated >>

\* Mutant of ToCsvFails: the I/O error does not stop the run.
ToCsvFailsRunGoesOn ==
    /\ At("to_csv")
    /\ IsBound(df)
    /\ \E written \in Prefixes(ToCsvLines(Val(df))) : file' = Some(written)
    /\ RaiseSwallowed
    /\ UNCHANGED << kernel, tables, timing, chart, wall, log, reads, generated >>

\* df.to_csv raises an I/O error: the file cannot be opened (it stays as it
\* was), or the write stops part-way and leaves a truncated file.
ToCsvFails ==
    /\ At("to_csv")
    /\ IsBound(df)
    /\ \/ file' = file
       \/ \E written \in Prefixes(ToCsvLines(Val(df))) : file' = Some(written)
    /\ Raise
    /\ UNCHANGED << kernel, tables, timing, chart, wall, log, reads, generated >>

\* start_time = time.time()
StartTimer ==
    /\ At("start")
    /\ start_time' = Some(clock)
    /\ Advance
    /\ UNCHANGED << kernel, file, tables, durations, stdout, chart, wall, log, reads, generated >>

\* <engine>_<op>_time = time.time() - start_time; print(f"...: {...:.4f} seconds")
StopTimer ==
    /\ At("stop")
    /\ IsBound(start_time)
    /\ LET d == clock - Val(start_time)
       IN  /\ durations' = [durations EXCEPT
                               ![TimeVar(Current.engine, Current.op)] = Some(d)]
           /\ stdout' = Append(stdout, << PrintLabel(Current.engine, Current.op), d >>)
    /\ Advance
    /\ UNCHANGED << kernel, file, tables, start_time, chart, wall, log, reads, generated >>

\* The operation at the current statement is invoked.
Invoke(e, o) ==
    /\ AtExec(e, o)
    /\ log' = Append(log, << e, o >>)

notFile == << kernel, timing, chart, wall, generated >>

\* pd_df = pd.read_csv("dataset.csv")
PandasRead ==
    /\ Invoke("Pandas", "Read")
    /\ IsBound(file) /\ Val(file) # << >>
    /\ pd_df' = Some(PdReadCsv(Val(file)))
    /\ reads' = Append(reads, "Pandas")
    /\ Advance
    /\ UNCHANGED << notFile, file, pl_df, pd_df_sorted, pl_df_sorted,
                    pd_grouped, pl_grouped >>

\* Mutant of PolarsRead: the file is opened for update and truncated.
PolarsReadTruncates ==
    /\ Invoke("Polars", "Read")
    /\ IsBound(file) /\ Val(file) # << >>
    /\ pl_df' = Some(PlReadCsv(Val(file)))
    /\ file' = Some(<< >>)
    /\ reads' = Append(reads, "Polars")
    /\ Advance
    /\ UNCHANGED << notFile, pd_df, pd_df_sorted, pl_df_sorted,
                    pd_grouped, pl_grouped >>

\* pl_df = pl.read_csv("dataset.csv")
PolarsRead ==
    /\ Invoke("Polars", "Read")
    /\ IsBound(file) /\ Val(file) # << >>
    /\ pl_df' = Some(PlReadCsv(Val(file)))
    /\ reads' = Append(reads, "Polars")
    /\ Advance
    /\ UNCHANGED << notFile, file, pd_df, pd_df_sorted, pl_df_sorted,
                    pd_grouped, pl_grouped >>

\* pd_df_sorted = pd_df.sort_values(by="Value")
PandasSort ==
    /\ Invoke("Pandas", "Sort")
    /\ IsBound(pd_df)
    /\ \E p \in SortedOrders(Val(pd_df).rows) :
        pd_df_sorted' = Some(PdSortValues(Val(pd_df), p))
    /\ Advance
    /\ UNCHANGED << notFile, file, reads, pd_df, pl_df, pl_df_sorted,
                    pd_grouped, pl_grouped >>

\* Mutant of PolarsSort: the call is made on the Pandas table.
PolarsSortOfPandasTable ==
    /\ Invoke("Polars", "Sort")
    /\ IsBound(pd_df)
    /\ \E p \in SortedOrders(Val(pd_df).rows) :
        pl_df_sorted' = Some(PlSort(Val(pd_df), p))
    /\ Advance
    /\ UNCHANGED << notFile, file, reads, pd_df, pl_df, pd_df_sorted,
                    pd_grouped, pl_grouped >>

\* pl_df_sorted = pl_df.sort("Value")
PolarsSort ==
    /\ Invoke("Polars", "Sort")
    /\ IsBound(pl_df)
    /\ \E p \in SortedOrders(Val(pl_df).rows) :
        pl_df_sorted' = Some(PlSort(Val(pl_df), p))
    /\ Advance
    /\ UNCHANGED << notFile, file, reads, pd_df, pl_df, pd_df_sorted,
                    pd_grouped, pl_grouped >>

\* pd_grouped = pd_df.groupby("Category")["Value"].sum()
PandasGroup ==
    /\ Invoke("Pandas", "Group")
    /\ IsBound(pd_df)
    /\ pd_grouped' = Some(PdGroupbySum(Val(pd_df)))
    /\ Advance
    /\ UNCHANGED << notFile, file, reads, pd_df, pl_df, pd_df_sorted,
                    pl_df_sorted, pl_grouped >>

\* pl_grouped = pl_df.group_by("Category").agg(pl.col("Value").sum())
PolarsGroup ==
    /\ Invoke("Polars", "Group")
    /\ IsBound(pl_df)
    /\ \E p \in Perms(Cardinality(PresentCategories(Val(pl_df).rows))) :
        pl_grouped' = Some(PlGroupByAgg(Val(pl_df), p))
    /\ Advance
    /\ UNCHANGED << notFile, file, reads, pd_df, pl_df, pd_df_sorted,
                    pl_df_sorted, pd_grouped >>

\* pd_df["New_Value"] = pd_df["Value"] * 1.1
PandasManipulate ==
    /\ Invoke("Pandas", "Manipulate")
    /\ IsBound(pd_df)
    /\ pd_df' = Some(WithColumn(Val(pd_df)))
    /\ Advance
    /\ UNCHANGED << notFile, file, reads, pl_df, pd_df_sorted, pl_df_sorted,
                    pd_grouped, pl_grouped >>

\* pl_df = pl_df.with_columns((pl.col("Value") * 1.1).alias("New_Value"))
PolarsManipulate ==
    /\ Invoke("Polars", "Manipulate")
    /\ IsBound(pl_df)
    /\ pl_df' = Some(WithColumn(Val(pl_df)))
    /\ Advance
    /\ UNCHANGED << notFile, file, reads, pd_df, pd_df_sorted, pl_df_sorted,
                    pd_grouped, pl_grouped >>

\* The operation at the current statement raises (missing or malformed file,
\* unbound name, out of memory, ...).  Nothing is assigned.  A failing read
\* may or may not have opened the file before it raised.
OperationRaises ==
    /\ At("exec")
    /\ log' = Append(log, << Current.engine, Current.op >>)
    /\ reads' \in IF Current.op = "Read"
                  THEN { reads, Append(reads, Current.engine) }
                  ELSE { reads }
    /\ Raise
    /\ UNCHANGED << notFile, file, tables >>

DurationOf(v) == Val(durations[v])

\* operations = ["Read", "Sort", "Group", "Manipulate"]
OperationLabels == << "Read", "Sort", "Group", "Manipulate" >>

\* Mutant of PandasTimes: the group time is left out of the list.
PandasTimesWithoutGroup ==
    << DurationOf("pandas_read_time"), DurationOf("pandas_sort_time"),
       DurationOf("pandas_manipulation_time") >>

\* pandas_times = [pandas_read_time, pandas_sort_time, pandas_group_time,
\*                 pandas_manipulation_time]
PandasTimes ==
    << DurationOf("pandas_read_time"), DurationOf("pandas_sort_time"),
       DurationOf("pandas_group_time"), DurationOf("pandas_manipulation_time") >>

\* Mutant of PolarsTimes: the group time is listed before the sort time.
PolarsTimesGroupBeforeSort ==
    << DurationOf("polars_read_time"), DurationOf("polars_group_time"),
       DurationOf("polars_sort_time"), DurationOf("polars_manipulation_time") >>

\* polars_times = [polars_read_time, polars_sort_time, polars_group_time,
\*                 polars_manipulation_time]
PolarsTimes ==
    << DurationOf("polars_read_time"), DurationOf("polars_sort_time"),
       DurationOf("polars_group_time"), DurationOf("polars_manipulation_time") >>

\* Cell 5: the three lists handed to the bar chart.  A duration that was
\* never assigned is an unbound name: NameError, and nothing is plotted.
PerformanceResults ==
    /\ At("results")
    /\ IF \A v \in TimeVars : IsBound(durations[v])
       THEN /\ operations' = Some(OperationLabels)
            /\ pandas_times' = Some(PandasTimes)
            /\ polars_times' = Some(PolarsTimes)
            /\ Advance
       ELSE /\ UNCHANGED chart
            /\ Raise
    /\ UNCHANGED << kernel, file, tables, timing, wall, log, reads, generated >>

\* A timer is running: start_time has been read for the current timing block
\* and the block's second reading has not been taken yet.  The notebook
\* looks at the clock only at these two readings and keeps their difference,
\* so the clock is followed only between them.
TimerRunning == At("exec") \/ At("stop")

\* Wall-clock time passes.
Tick ==
    /\ TimerRunning
    /\ clock < MaxClock
    /\ clock' = clock + 1
    /\ UNCHANGED << pc, last, executions, run, traceback, setBacks, kernel,
                    file, tables, timing, chart, log, reads, raised, trace,
                    generated >>

\* The system clock is set back (NTP step, manual adjustment): time.time()
\* follows the system clock and may return less than an earlier call did.
ClockSetBack ==
    /\ TimerRunning
    /\ setBacks < MaxSetBacks
    /\ \E t \in 0..(clock - 1) : clock' = t
    /\ setBacks' = setBacks + 1
    /\ UNCHANGED << pc, last, executions, run, traceback, kernel, file,
                    tables, timing, chart, log, reads, raised, trace,
                    generated >>

Next ==
    \/ Generate
    \/ ToCsv
    \/ ToCsvFails
    \/ StartTimer
    \/ PandasRead
    \/ PolarsRead
    \/ PandasSort
    \/ PolarsSort
    \/ PandasGroup
    \/ PolarsGroup
    \/ PandasManipulate
    \/ PolarsManipulate
    \/ OperationRaises
    \/ StopTimer
    \/ PerformanceResults
    \/ Tick
    \/ ClockSetBack

Spec == Init /\ [][Next]_vars

---------------------------------------------------------------------------
(* An interactive session: the user executes one cell at a time, any cell, *)
(* in any order, up to MaxExecutions times                                 *)

\* The statements of each code cell, as positions of Program.
GeneratorCell ==
    [first |-> IndexOf(Program, Stmt("generate", "-", "-")),
     last  |-> IndexOf(Program, Stmt("to_csv", "-", "-"))]

TimingCell(o) ==
    [first |-> IndexOf(Program, Stmt("start", "Pandas", o)),
     last  |-> IndexOf(Program, Stmt("stop", "Polars", o))]

ResultsCell ==
    [first |-> IndexOf(Program, Stmt("results", "-", "-")),
     last  |-> IndexOf(Program, Stmt("results", "-", "-"))]

TimingCells == { TimingCell(o) : o \in Operations }
CodeCells == {GeneratorCell} \cup TimingCells \cup {ResultsCell}

\* A fresh kernel with no cell executed and none running.
InitSession ==
    /\ pc = 1
    /\ last = 0
    /\ executions = 0
    /\ run = "idle"
    /\ FreshKernel
    /\ file = None
    /\ NoTables
    /\ NoTimings
    /\ NoHistory

Idle == run \in {"idle", "completed", "aborted"}

\* The user executes one cell: its statements run first to last.
ExecuteCell ==
    /\ Idle
    /\ executions < MaxExecutions
    /\ \E c \in CodeCells :
        /\ pc' = c.first
        /\ last' = c.last
    /\ run' = "running"
    /\ executions' = executions + 1
    /\ UNCHANGED << traceback, kernel, file, tables, timing, chart, wall, log,
                    reads, raised, trace, generated >>

\* The user executes some other code that draws from both global generators.
OtherDraws ==
    /\ Idle
    /\ executions < MaxExecutions
    /\ IsBound(py_rng)
    /\ IsBound(np_rng)
    /\ py_rng' = Some(AfterDraws(Val(py_rng), 1))
    /\ np_rng' = Some(AfterDraws(Val(np_rng), 1))
    /\ executions' = executions + 1
    /\ trace' = Append(trace, Stmt("draws", "-", "-"))
    /\ UNCHANGED << pc, last, run, traceback, num_rows, dates, df, file,
                    tables, timing, chart, wall, log, reads, raised,
                    generated >>

NextSession ==
    \/ ExecuteCell
    \/ OtherDraws
    \/ Generate
    \/ ToCsv
    \/ StartTimer
    \/ PandasRead
    \/ PolarsRead
    \/ PandasSort
    \/ PolarsSort
    \/ PandasGroup
    \/ PolarsGroup
    \/ PandasManipulate
    \/ PolarsManipulate
    \/ OperationRaises
    \/ StopTimer
    \/ PerformanceResults
    \/ Tick

SpecSession == InitSession /\ [][NextSession]_vars

---------------------------------------------------------------------------
(* The date comprehension of cell 3, one iteration at a time, from any     *)
(* state of random's generator                                             *)

\* Cell 3 after line 90: both generators seeded, num_rows assigned, the
\* comprehension of line 91 about to start.
InitDates ==
    /\ pc = 1
    /\ last = Len(Program)
    /\ executions = 0
    /\ run = "running"
    /\ np_rng = Some(SeedState(Seed))
    /\ py_rng \in { Some(s) : s \in RngStates }
    /\ num_rows \in { Some(n) : n \in 0..MaxRows }
    /\ dates = Some(<< >>)
    /\ df = None
    /\ file = None
    /\ NoTables
    /\ NoTimings
    /\ NoHistory

\* One iteration of the comprehension: one randint draw, one date appended.
DrawDate ==
    /\ At("generate")
    /\ Len(Val(dates)) < Val(num_rows)
    /\ dates' = Some(Val(dates) \o Dates(Val(py_rng), 1))
    /\ py_rng' = Some(AfterDraws(Val(py_rng), 1))
    /\ UNCHANGED << pc, last, executions, run, np_rng, num_rows, df, file,
                    tables, timing, chart, wall, traceback, log, reads,
                    raised, trace, generated >>

NextDates == DrawDate

SpecDates == InitDates /\ [][NextDates]_vars

---------------------------------------------------------------------------
(* The timing and results cells over any dataset of the generator's shape  *)

\* Values and categories the rows are built from: equal values and shared
\* categories occur.
DataValues == {3, 5, 10}
DataCategories == {"A", "B"}

\* The DataFrames of cell 3's shape with up to MaxDataRows rows.
DataFrames ==
    UNION { { [engine  |-> "Pandas",
               columns |-> Header,
               index   |-> [i \in 1..n |-> i - 1],
               rows    |-> [i \in 1..n |->
                              [ID       |-> Ids(n)[i],
                               Category |-> c[i],
                               Value    |-> v[i],
                               Date     |-> Epoch]]] :
                c \in [1..n -> DataCategories], v \in [1..n -> DataValues] } :
            n \in 0..MaxDataRows }

\* Cell 3 has run: df is some dataset and dataset.csv holds it.
InitData ==
    /\ pc = TimingCell("Read").first
    /\ last = Len(Program)
    /\ executions = 0
    /\ run = "running"
    /\ \E t \in DataFrames :
        /\ num_rows = Some(Len(t.rows))
        /\ py_rng = Some(AfterDraws(SeedState(Seed), Len(t.rows)))
        /\ np_rng = Some(AfterDraws(SeedState(Seed), 2 * Len(t.rows)))
        /\ dates = Some([i \in 1..Len(t.rows) |-> t.rows[i].Date])
        /\ df = Some(t)
        /\ file = Some(ToCsvLines(t))
        /\ generated = << [num_rows |-> Len(t.rows), df |-> t] >>
    /\ NoTables
    /\ NoTimings
    /\ traceback = None
    /\ log = << >>
    /\ reads = << >>
    /\ raised = {}
    /\ trace = SubSeq(Program, GeneratorCell.first, GeneratorCell.last)

NextData ==
    \/ StartTimer
    \/ PandasRead
    \/ PolarsRead
    \/ PandasSort
    \/ PolarsSort
    \/ PandasGroup
    \/ PolarsGroup
    \/ PandasManipulate
    \/ PolarsManipulate
    \/ StopTimer
    \/ PerformanceResults

SpecData == InitData /\ [][NextData]_vars

---------------------------------------------------------------------------
(* Properties *)

ExecOf(p) == Stmt("exec", p[1], p[2])
Statements == Range(Program)
Position(s) == IndexOf(Program, s)
Passed(s) == pc > Position(s)
Before(o) == { OperationOrder[j] : j \in 1..(IndexOf(OperationOrder, o) - 1) }

\* C1: in one run every operation is invoked exactly once for each engine.
\* No (engine, operation) pair is ever invoked a second time, no pair is
\* skipped over (once control is past a pair's timing block the pair has been
\* invoked), and a run that reaches its end has invoked all eight pairs once.
C1_EachOperationOncePerEngine ==
    \A p \in Pairs :
        LET n == Count(log, p)
        IN  /\ n <= 1
            /\ (ExecOf(p) \in Statements /\ Passed(ExecOf(p))) => n = 1
            /\ run = "completed" => n = 1

C1_Witness == run = "completed" /\ Len(log) = Cardinality(Pairs)

\* C2: per engine the operations run in the order Read, Sort, Group,
\* Manipulate, and an operation is invoked only after the engine's preceding
\* operations were invoked earlier and have finished (their durations are
\* assigned, which happens after the operation returns).
C2_OperationOrderPerEngine ==
    \A i \in DOMAIN log :
        \A o \in Before(log[i][2]) :
            /\ \E j \in 1..(i - 1) : log[j] = << log[i][1], o >>
            /\ IsBound(durations[TimeVar(log[i][1], o)])

C2_Witness ==
    /\ run = "running"
    /\ log # << >>
    /\ log[Len(log)] = << "Polars", "Manipulate" >>
    /\ pc = Position(Stmt("stop", "Polars", "Manipulate"))

\* The Measurement triples the chart shows: bar i of a series is labelled
\* operations[i] (plt.xticks(x, operations)) and the series is labelled with
\* the engine (label="Pandas", label="Polars").
ChartMeasurements ==
    [i \in 1..Len(Val(pandas_times)) |->
        << Val(operations)[i], "Pandas", Val(pandas_times)[i] >>]
    \o [i \in 1..Len(Val(polars_times)) |->
        << Val(operations)[i], "Polars", Val(polars_times)[i] >>]

\* C3: when all operations succeed, the output holds exactly one Measurement
\* for every requested (operation, engine) pair and none for any other pair.
C3_OneMeasurementPerPair ==
    run = "completed" =>
        /\ IsBound(operations) /\ IsBound(pandas_times) /\ IsBound(polars_times)
        /\ LET m == ChartMeasurements
           IN  /\ Len(m) = Cardinality(Pairs)
               /\ \A i \in DOMAIN m : << m[i][2], m[i][1] >> \in Pairs
               /\ \A p \in Pairs :
                    Cardinality({ i \in DOMAIN m :
                                    m[i][2] = p[1] /\ m[i][1] = p[2] }) = 1

C3_Witness ==
    /\ run = "completed"
    /\ raised = {}
    /\ Len(ChartMeasurements) = 8

\* C4: every recorded duration is non-negative, whatever the wall clock does
\* between the two readings.
C4_DurationsNonNegative ==
    \A v \in TimeVars : IsBound(durations[v]) => DurationOf(v) >= 0

Printed(p) == \E i \in DOMAIN stdout : stdout[i][1] = PrintLabel(p[1], p[2])

\* C5: if an operation raises for some engine, the failure is signalled and
\* identifies the failing (engine, operation) pair (the run stops with the
\* traceback at that pair's statement), and no duration is reported for the
\* pair: its global stays unassigned, nothing is printed for it, and the
\* chart lists are never built.
C5_FailedPairNotReported ==
    \A p \in Pairs :
        ExecOf(p) \in raised =>
            /\ run = "aborted"
            /\ traceback = Some(ExecOf(p))
            /\ ~IsBound(durations[TimeVar(p[1], p[2])])
            /\ ~Printed(p)
            /\ ~IsBound(pandas_times) /\ ~IsBound(polars_times)

C5_Witness ==
    /\ ExecOf(<< "Polars", "Sort" >>) \in raised
    /\ IsBound(durations["pandas_sort_time"])
    /\ Printed(<< "Pandas", "Sort" >>)

\* C6: a failed pair invalidates only that pair: once the run has ended, the
\* remaining pairs have been measured and the results are reported with the
\* failed pair left as a gap.
C6_FailureLeavesOnlyAGap ==
    \A p \in Pairs :
        (ExecOf(p) \in raised /\ run # "running") =>
            /\ \A q \in Pairs \ {p} : IsBound(durations[TimeVar(q[1], q[2])])
            /\ IsBound(operations) /\ IsBound(pandas_times) /\ IsBound(polars_times)
            /\ ~IsBound(durations[TimeVar(p[1], p[2])])

GenerationFailed == Stmt("to_csv", "-", "-") \in raised

\* C7: if writing the dataset file fails, the run aborts: no timer is
\* started, no operation of any engine is invoked, and no duration is
\* recorded, printed or charted.
C7_GenerationFailureAborts ==
    GenerationFailed =>
        /\ run = "aborted"
        /\ log = << >>
        /\ reads = << >>
        /\ ~IsBound(start_time)
        /\ \A v \in TimeVars : ~IsBound(durations[v])
        /\ stdout = << >>
        /\ ~IsBound(operations) /\ ~IsBound(pandas_times) /\ ~IsBound(polars_times)
        /\ \A t \in { pd_df, pl_df, pd_df_sorted, pl_df_sorted, pd_grouped, pl_grouped } :
            ~IsBound(t)

C7_Witness == GenerationFailed /\ IsBound(file) /\ Len(Val(file)) = 1

pandasState == << pd_df, pd_df_sorted, pd_grouped >>
polarsState == << pl_df, pl_df_sorted, pl_grouped >>

\* This step invokes operation o of engine e.
Invoked(e, o) == log' # log /\ log'[Len(log')] = << e, o >>

SameRows(a, b) == Len(a) = Len(b) /\ \E p \in Perms(Len(a)) : Permute(a, p) = b

\* The table of engine e at this step is the one its load produced from the
\* dataset file.
OwnLoadedTable(e) ==
    IF e = "Pandas"
    THEN /\ IsBound(pd_df)
         /\ Val(pd_df).engine = "Pandas"
         /\ Val(pd_df) = PdReadCsv(Val(file))
    ELSE /\ IsBound(pl_df)
         /\ Val(pl_df).engine = "Polars"
         /\ Val(pl_df) = PlReadCsv(Val(file))

\* C8: engine independence.  A step that runs an operation of one engine
\* leaves the other engine's table and derived results as they were; a sort,
\* group or manipulate that returns has worked on its own engine's table as
\* its load produced it, and its result is an object of that engine made of
\* that table's rows.
C8_EngineIndependence ==
    [][ /\ (\E o \in Operations : Invoked("Pandas", o)) => UNCHANGED polarsState
        /\ (\E o \in Operations : Invoked("Polars", o)) => UNCHANGED pandasState
        /\ (Invoked("Pandas", "Sort") /\ pd_df_sorted' # pd_df_sorted) =>
              /\ OwnLoadedTable("Pandas")
              /\ Val(pd_df_sorted').engine = "Pandas"
              /\ SameRows(Val(pd_df).rows, Val(pd_df_sorted').rows)
              /\ Range(Val(pd_df_sorted').index) = Range(Val(pd_df).index)
        /\ (Invoked("Polars", "Sort") /\ pl_df_sorted' # pl_df_sorted) =>
              /\ OwnLoadedTable("Polars")
              /\ Val(pl_df_sorted').engine = "Polars"
              /\ SameRows(Val(pl_df).rows, Val(pl_df_sorted').rows)
        /\ (Invoked("Pandas", "Group") /\ pd_grouped' # pd_grouped) =>
              /\ OwnLoadedTable("Pandas")
              /\ Val(pd_grouped').engine = "Pandas"
              /\ Range(Val(pd_grouped').index) = PresentCategories(Val(pd_df).rows)
        /\ (Invoked("Polars", "Group") /\ pl_grouped' # pl_grouped) =>
              /\ OwnLoadedTable("Polars")
              /\ Val(pl_grouped').engine = "Polars"
              /\ { Val(pl_grouped').rows[i].Category : i \in DOMAIN Val(pl_grouped').rows }
                    = PresentCategories(Val(pl_df).rows)
        /\ (Invoked("Pandas", "Manipulate") /\ pd_df' # pd_df) =>
              /\ OwnLoadedTable("Pandas")
              /\ Val(pd_df').engine = "Pandas"
              /\ Val(pd_df').index = Val(pd_df).index
              /\ \A i \in DOMAIN Val(pd_df).rows :
                    Val(pd_df').rows[i].ID = Val(pd_df).rows[i].ID
        /\ (Invoked("Polars", "Manipulate") /\ pl_df' # pl_df) =>
              /\ OwnLoadedTable("Polars")
              /\ Val(pl_df').engine = "Polars"
              /\ \A i \in DOMAIN Val(pl_df).rows :
                    Val(pl_df').rows[i].ID = Val(pl_df).rows[i].ID
      ]_vars

C8_Witness ==
    /\ IsBound(pd_df) /\ IsBound(pl_df) /\ IsBound(pl_df_sorted) /\ IsBound(pl_grouped)
    /\ Val(pd_df).rows # << >>
    /\ "New_Value" \in Range(Val(pd_df).columns)
    /\ "New_Value" \notin Range(Val(pl_df).columns)

\* C9: the dataset file is written only by the generator's to_csv: no other
\* statement changes, truncates or deletes it.  The file is opened only by a
\* Read operation, by the engine that Read belongs to, at most once per
\* engine, and exactly once per engine in a run that completes.
C9_FileWrittenOnlyByGenerator ==
    [][ /\ file' # file => At("to_csv")
        /\ reads' # reads =>
              /\ At("exec") /\ Current.op = "Read"
              /\ reads' = Append(reads, Current.engine)
        /\ \A e \in Engines : Count(reads', e) <= 1
        /\ run' = "completed" => \A e \in Engines : Count(reads', e) = 1
      ]_vars

C9_Witness ==
    /\ run = "completed"
    /\ reads = << "Pandas", "Polars" >>
    /\ file = Some(ToCsvLines(Val(df)))
    /\ Len(Val(file)) > 1

\* C10: for row count N the generator produces exactly N records whose ids
\* are 1, 2, ..., N in this order, and the file it writes holds the header
\* line followed by N data lines, the i-th carrying id i.
C10_GeneratorRowsAndIds ==
    /\ IsBound(df) =>
        /\ Len(Val(df).rows) = Val(num_rows)
        /\ \A i \in 1..Val(num_rows) : Val(df).rows[i].ID = i
    /\ Passed(Stmt("to_csv", "-", "-")) =>
        /\ IsBound(file)
        /\ Len(Val(file)) = Val(num_rows) + 1
        /\ Val(file)[1] = Header
        /\ \A i \in 1..Val(num_rows) :
            /\ Len(Val(file)[i + 1]) = Len(Header)
            /\ Val(file)[i + 1][1] = Literal(i)

C10_Witness ==
    /\ Passed(Stmt("to_csv", "-", "-"))
    /\ Val(num_rows) >= 2
    /\ Len(Val(file)) = Val(num_rows) + 1

\* C11: every generated date is the epoch plus a whole number of days between
\* 0 and 365, both included, and lies within the one year that starts at the
\* epoch.
RECURSIVE DaysBeforeMonth(_, _)
DaysBeforeMonth(y, m) ==
    IF m = 1 THEN 0 ELSE DaysBeforeMonth(y, m - 1) + DaysInMonth(y, m - 1)

IsCalendarDate(d) ==
    /\ d.month \in 1..12
    /\ d.day \in 1..DaysInMonth(d.year, d.month)

\* Days from the epoch to d, for d in the epoch's year or the year after.
DaysSinceEpoch(d) ==
    (IF d.year = Epoch.year THEN 0 ELSE DaysBeforeMonth(Epoch.year, 12) + 31)
        + DaysBeforeMonth(d.year, d.month) + d.day
        - (DaysBeforeMonth(Epoch.year, Epoch.month) + Epoch.day)

\* d is on or after the epoch and before the same day one year later.
InEpochYear(d) ==
    /\ d.year \in {Epoch.year, Epoch.year + 1}
    /\ DaysSinceEpoch(d) >= 0
    /\ \/ d.year = Epoch.year
       \/ d.month < Epoch.month
       \/ d.month = Epoch.month /\ d.day < Epoch.day

C11_DatesWithinEpochYear ==
    IsBound(dates) =>
        \A i \in DOMAIN Val(dates) :
            /\ IsCalendarDate(Val(dates)[i])
            /\ DaysSinceEpoch(Val(dates)[i]) \in 0..365
            /\ InEpochYear(Val(dates)[i])

\* Both ends of the offset range are drawn: the epoch itself and day 365.
C11_Witness ==
    /\ IsBound(dates)
    /\ Len(Val(dates)) = 2
    /\ DaysSinceEpoch(Val(dates)[1]) = 365
    /\ Val(dates)[1] = [year |-> 2020, month |-> 12, day |-> 31]
    /\ DaysSinceEpoch(Val(dates)[2]) < 365

\* C12: two executions of the generator with the same seed and the same number
\* of rows produce the same dataset, also when the second comes later in the
\* same session, after other draws from the generators.
C12_GeneratorDeterminism ==
    \A i, j \in DOMAIN generated :
        generated[i].num_rows = generated[j].num_rows
            => generated[i].df = generated[j].df

\* The generator ran, other code drew from the generators, the generator ran
\* again for the same number of rows.
C12_Witness ==
    /\ Len(generated) = 2
    /\ generated[1].num_rows = MaxRows
    /\ generated[2].num_rows = MaxRows
    /\ \E i, j, k \in DOMAIN trace :
        /\ i < j /\ j < k
        /\ trace[i].kind = "generate"
        /\ trace[j].kind = "draws"
        /\ trace[k].kind = "generate"

\* C13: for either engine, sort returns all the rows of the table, ascending
\* by Value, and rows of equal Value keep the relative order they had in the
\* table.
InputPosition(t, r) == CHOOSE k \in DOMAIN t.rows : t.rows[k].ID = r.ID

SameRowAs(r, q) == \A c \in DOMAIN r : r[c] = q[c]

AllRowsOf(t, sorted) ==
    /\ Len(sorted.rows) = Len(t.rows)
    /\ \A k \in DOMAIN t.rows :
        Cardinality({ i \in DOMAIN sorted.rows :
                        SameRowAs(sorted.rows[i], t.rows[k]) }) = 1

Ascending(sorted) ==
    \A i, j \in DOMAIN sorted.rows :
        i < j => sorted.rows[i].Value <= sorted.rows[j].Value

Stable(t, sorted) ==
    \A i, j \in DOMAIN sorted.rows :
        (i < j /\ sorted.rows[i].Value = sorted.rows[j].Value)
            => InputPosition(t, sorted.rows[i]) < InputPosition(t, sorted.rows[j])

SortResults ==
    { x \in { << pd_df, pd_df_sorted >>, << pl_df, pl_df_sorted >> } :
        IsBound(x[2]) }

C13_SortAscendingAndStable ==
    \A x \in SortResults :
        /\ AllRowsOf(Val(x[1]), Val(x[2]))
        /\ Ascending(Val(x[2]))
        /\ Stable(Val(x[1]), Val(x[2]))

\* The part of C13 that the sort calls do provide.
C13_SortAscendingAllRows ==
    \A x \in SortResults :
        /\ AllRowsOf(Val(x[1]), Val(x[2]))
        /\ Ascending(Val(x[2]))

\* C14: for either engine, group_sum gives exactly one entry per category
\* present in the loaded table, holding the sum of Value over the rows of that
\* category, and both engines give the same mapping from category to sum.
RECURSIVE SumOfValues(_, _)
SumOfValues(rows, S) ==
    IF S = {} THEN 0
    ELSE LET i == CHOOSE k \in S : TRUE
         IN  rows[i].Value + SumOfValues(rows, S \ {i})

\* The mapping from category to sum that the rows of a table define.
CategorySums(t) ==
    [c \in { t.rows[i].Category : i \in DOMAIN t.rows } |->
        SumOfValues(t.rows, { i \in DOMAIN t.rows : t.rows[i].Category = c })]

\* The entries of each engine's result, as (category, sum) pairs in order.
PandasEntries(g) == [i \in DOMAIN g.index |-> << g.index[i], g.values[i] >>]
PolarsEntries(g) == [i \in DOMAIN g.rows |-> << g.rows[i].Category, g.rows[i].Value >>]

IsMappingOf(entries, sums) ==
    /\ Len(entries) = Cardinality(DOMAIN sums)
    /\ \A c \in DOMAIN sums : Count(entries, << c, sums[c] >>) = 1

IsValueTimesOnePointOne(x, v) == x.num * 10 = v * 11 * x.den /\ x.den > 0

DerivedFrom(t, u) ==
    /\ u.engine = t.engine
    /\ Len(u.rows) = Len(t.rows)
    /\ u.columns = t.columns \o << "New_Value" >>
    /\ \A i \in DOMAIN t.rows :
        /\ DOMAIN u.rows[i] = DOMAIN t.rows[i] \cup {"New_Value"}
        /\ \A c \in DOMAIN t.rows[i] : u.rows[i][c] = t.rows[i][c]
        /\ IsValueTimesOnePointOne(u.rows[i].New_Value, t.rows[i].Value)

C15_DeriveAddsColumn ==
    [][ /\ Invoked("Pandas", "Manipulate") => DerivedFrom(Val(pd_df), Val(pd_df'))
        /\ Invoked("Polars", "Manipulate") => DerivedFrom(Val(pl_df), Val(pl_df'))
      ]_vars

\* Both engines have derived New_Value = 11 for a row of Value 10.
C15_Witness ==
    /\ Passed(Stmt("exec", "Pandas", "Manipulate"))
    /\ Passed(Stmt("exec", "Polars", "Manipulate"))
    /\ \A t \in {Val(pd_df), Val(pl_df)} :
        /\ Len(t.rows) = MaxDataRows
        /\ t.columns = Header \o << "New_Value" >>
        /\ t.rows[1].Value = 10
        /\ t.rows[1].New_Value = [num |-> 110, den |-> 10]

\* C16: a duration brackets exactly one operation.  The statement executed
\* just before a stop reading is the operation the reading belongs to, the
\* statement before that is the start reading taken for the same operation,
\* nothing else (no other operation, no load, no generator step) is executed
\* in between, and start_time is assigned by start readings only, so the
\* reading subtracted is that one.
BracketedAt(t, k) ==
    /\ k > 2
    /\ t[k - 1] = Stmt("exec", t[k].engine, t[k].op)
    /\ t[k - 2] = Stmt("start", t[k].engine, t[k].op)

C16_TimingBracketsOneOperation ==
    [][ /\ start_time' # start_time =>
              /\ trace' = Append(trace, Stmt("start", Current.engine, Current.op))
              /\ start_time' = Some(clock)
        /\ \A k \in DOMAIN trace' : trace'[k].kind = "stop" => BracketedAt(trace', k)
        /\ durations' # durations =>
              /\ trace'[Len(trace')] = Stmt("stop", Current.engine, Current.op)
              /\ \A v \in TimeVars \ {TimeVar(Current.engine, Current.op)} :
                    durations'[v] = durations[v]
              /\ durations'[TimeVar(Current.engine, Current.op)]
                    = Some(clock - Val(start_time))
      ]_vars

\* All eight durations were taken, and the clock moved during one operation.
C16_Witness ==
    /\ Count([k \in DOMAIN trace |-> trace[k].kind], "stop") = Cardinality(Pairs)
    /\ \A v \in TimeVars : IsBound(durations[v])
    /\ Val(durations[TimeVar("Polars", "Read")]) = 1
    /\ Val(durations[TimeVar("Pandas", "Sort")]) = 0

\* C17: when a sort, group or manipulate starts, the engine's table is as its
\* load produced it: the columns of the file's header, one row per line of
\* the file, in the file's order, and no manipulate of that engine has run
\* before.  Only a load or a manipulate of the engine ever changes its table.
TableOf(e) == IF e = "Pandas" THEN pd_df ELSE pl_df

AsLoaded(t, lines) ==
    /\ t.columns = lines[1]
    /\ Len(t.rows) = Len(lines) - 1
    /\ \A i \in DOMAIN t.rows :
        /\ DOMAIN t.rows[i] = Range(lines[1])
        /\ \A c \in DOMAIN lines[1] :
              t.rows[i][lines[1][c]] = ParseField(lines[i + 1][c])

C17_OperationsSeeLoadedTable ==
    [][ /\ \A e \in Engines :
            TableOf(e)' # TableOf(e) =>
                Invoked(e, "Read") \/ Invoked(e, "Manipulate")
        /\ \A e \in Engines, o \in Operations \ {"Read"} :
            (AtExec(e, o) /\ IsBound(TableOf(e))) =>
                /\ AsLoaded(Val(TableOf(e)), Val(file))
                /\ Count(trace, Stmt("exec", e, "Manipulate")) = 0
      ]_vars

\* The Polars manipulate is about to start on the loaded Polars table, after
\* the Pandas manipulate has added its column to the Pandas table.
C17_Witness ==
    /\ AtExec("Polars", "Manipulate")
    /\ Len(Val(pl_df).rows) = MaxRows
    /\ Val(pl_df).columns = Header
    /\ "New_Value" \in Range(Val(pd_df).columns)
    /\ Count(trace, Stmt("exec", "Polars", "Sort")) = 1

\* C18: after any sequence of executions of the timing cells, each pair has
\* at most one recorded duration, and it is the duration of the most recent
\* execution of that pair: the operation's latest execution is the one that
\* was measured, and the value recorded is the value measured then.
LastIndexOf(t, x) ==
    IF Count(t, x) = 0 THEN 0
    ELSE CHOOSE k \in DOMAIN t : t[k] = x /\ \A j \in DOMAIN t : j > k => t[j] # x

\* The durations measured for pair p so far, oldest first.
Measured(p) == SelectSeq(stdout, LAMBDA w : w[1] = PrintLabel(p[1], p[2]))

LatestExecutionMeasured(p) ==
    LET k == LastIndexOf(trace, Stmt("exec", p[1], p[2]))
    IN  /\ k > 0
        /\ k < Len(trace)
        /\ trace[k + 1] = Stmt("stop", p[1], p[2])

RecordsLatestMeasurement(p) ==
    /\ IsBound(durations[TimeVar(p[1], p[2])]) <=> Measured(p) # << >>
    /\ Measured(p) # << >> =>
          Val(durations[TimeVar(p[1], p[2])]) = Measured(p)[Len(Measured(p))][2]

C18_DurationOfMostRecentExecution ==
    Idle =>
        \A p \in Pairs :
            /\ RecordsLatestMeasurement(p)
            /\ IsBound(durations[TimeVar(p[1], p[2])]) => LatestExecutionMeasured(p)

\* The part of C18 that holds: each pair's global holds the latest duration
\* measured for it, and nothing when none was measured.
C18_OverwritesNeverAccumulates ==
    \A p \in Pairs : RecordsLatestMeasurement(p)

\* C19: in the lists handed to the chart, position i of pandas_times and
\* position i of polars_times hold the duration measured for the operation
\* named at position i of operations (Read, Sort, Group, Manipulate), and the
\* three lists have the same length.
LatestMeasured(e, o) == Measured(<< e, o >>)[Len(Measured(<< e, o >>))][2]

C19_ChartListsAligned ==
    /\ IsBound(operations) <=> IsBound(pandas_times)
    /\ IsBound(operations) <=> IsBound(polars_times)
    /\ IsBound(operations) =>
          /\ Val(operations) = OperationOrder
          /\ Len(Val(pandas_times)) = Len(Val(operations))
          /\ Len(Val(polars_times)) = Len(Val(operations))
          /\ \A i \in DOMAIN Val(operations) :
                /\ Val(pandas_times)[i] = LatestMeasured("Pandas", Val(operations)[i])
                /\ Val(polars_times)[i] = LatestMeasured("Polars", Val(operations)[i])

\* The lists are built, and the Polars sort and group durations differ.
C19_Witness ==
    /\ IsBound(operations)
    /\ Val(polars_times)[IndexOf(Val(operations), "Sort")] = 1
    /\ Val(polars_times)[IndexOf(Val(operations), "Group")] = -1
    /\ Val(pandas_times)[IndexOf(Val(operations), "Group")] = 0

====
